---- MODULE Spec2Model ----
(***************************************************************************)
(* A model of examples/bayesian_linear_regression_tensor.py: the dataset   *)
(* builder build_toy_dataset (numpy / scipy arithmetic in IEEE binary64,   *)
(* cast to binary32 on return) and the script's linear pipeline            *)
(* (seed, dataset, model declaration, inference, 501 training steps).      *)
(*                                                                         *)
(* Floating-point numbers are modelled exactly.  A finite value is a       *)
(* record [sgn, man, exp] standing for (-1)^sgn * man * 2^exp, where man   *)
(* is a natural number written as a sequence of bits, least significant    *)
(* bit first, kept odd (no low zero bits, no high zero bits); zero is      *)
(* [sgn |-> 0, man |-> <<>>, exp |-> 0].  Equal values are equal records.  *)
(* A value fits a format of precision P exactly when Len(man) <= P; the    *)
(* magnitudes the program produces (below 2^7, above 2^-60 when not zero)  *)
(* stay far inside the exponent range of both formats.                     *)
(***************************************************************************)
EXTENDS Integers, Sequences, FiniteSets, TLC

\* ------------------------------------------------------------------------
\* Natural numbers as bit sequences (least significant bit first)
\* ------------------------------------------------------------------------

\* the largest and the smallest element of a non-empty set of integers
MaxOf(S) == CHOOSE i \in S : \A j \in S : j <= i
MinOf(S) == CHOOSE i \in S : \A j \in S : i <= j

\* the positions of the one bits
Ones(a) == {i \in 1..Len(a) : a[i] = 1}

\* drop the high-order zero bits
TrimN(a) ==
  IF Ones(a) = {} THEN <<>> ELSE SubSeq(a, 1, MaxOf(Ones(a)))

RECURSIVE BitsOf(_)
\* the bits of a small natural number
BitsOf(k) ==
  IF k = 0 THEN <<>> ELSE <<k % 2>> \o BitsOf(k \div 2)

Zeros(k) == [i \in 1..k |-> 0]

\* a * 2^k
ShlN(a, k) ==
  IF a = <<>> THEN <<>> ELSE Zeros(k) \o a

\* a, widened with high zero bits to n bits
PadN(a, n) == a \o Zeros(n - Len(a))

RECURSIVE AddW(_, _, _)
\* a + b + c for a and b of one length n >= 1, c the carry in: n sum bits and
\* then the carry out.  The low half is added first and its carry out is the
\* carry in of the high half.
AddW(a, b, c) ==
  LET n == Len(a)
  IN  IF n = 1 THEN <<(a[1] + b[1] + c) % 2, (a[1] + b[1] + c) \div 2>>
      ELSE LET h  == n \div 2
               lo == AddW(SubSeq(a, 1, h), SubSeq(b, 1, h), c)
               hi == AddW(SubSeq(a, h + 1, n), SubSeq(b, h + 1, n), lo[h + 1])
           IN  SubSeq(lo, 1, h) \o hi

\* a + b + c, c the carry in
AddN(a, b, c) ==
  LET n == IF Len(a) < Len(b) THEN Len(b) ELSE Len(a)
  IN  IF n = 0 THEN BitsOf(c)
      ELSE TrimN(AddW(PadN(a, n), PadN(b, n), c))

RECURSIVE SubW(_, _, _)
\* a - b - c for a and b of one length n >= 1, c the borrow in: n difference
\* bits and then the borrow out
SubW(a, b, c) ==
  LET n == Len(a)
  IN  IF n = 1 THEN <<(a[1] - b[1] - c) % 2, IF a[1] - b[1] - c < 0 THEN 1 ELSE 0>>
      ELSE LET h  == n \div 2
               lo == SubW(SubSeq(a, 1, h), SubSeq(b, 1, h), c)
               hi == SubW(SubSeq(a, h + 1, n), SubSeq(b, h + 1, n), lo[h + 1])
           IN  SubSeq(lo, 1, h) \o hi

\* a - b for a >= b
SubN(a, b) ==
  LET n == Len(a)
  IN  IF n = 0 THEN <<>>
      ELSE TrimN(SubSeq(SubW(a, PadN(b, n), 0), 1, n))

\* a <= b for trimmed naturals: the shorter is the smaller, and of two of one
\* length the highest bit in which they differ decides
LeqN(a, b) ==
  IF Len(a) # Len(b) THEN Len(a) < Len(b)
  ELSE LET diff == {i \in 1..Len(a) : a[i] # b[i]}
       IN  diff = {} \/ a[MaxOf(diff)] < b[MaxOf(diff)]

RECURSIVE MulN(_, _)
\* a * b: the product by the low half of a plus the shifted product by its
\* high half
MulN(a, b) ==
  IF a = <<>> \/ b = <<>> THEN <<>>
  ELSE IF Len(a) = 1 THEN (IF a[1] = 1 THEN b ELSE <<>>)
  ELSE LET h == Len(a) \div 2
       IN  AddN(MulN(TrimN(SubSeq(a, 1, h)), b),
                ShlN(MulN(SubSeq(a, h + 1, Len(a)), b), h), 0)

\* the number of low-order zero bits of a non-zero natural
LowZeros(a) == MinOf(Ones(a)) - 1

\* ------------------------------------------------------------------------
\* Exact dyadic arithmetic
\* ------------------------------------------------------------------------

Zero == [sgn |-> 0, man |-> <<>>, exp |-> 0]

\* the canonical record of (-1)^s * bits * 2^e
Canon(s, bits, e) ==
  LET m == TrimN(bits)
      k == LowZeros(m)
  IN  IF m = <<>> THEN Zero
      ELSE [sgn |-> s, man |-> SubSeq(m, k + 1, Len(m)), exp |-> e + k]

\* the value of a small integer
FromInt(k) ==
  IF k < 0 THEN Canon(1, BitsOf(-k), 0) ELSE Canon(0, BitsOf(k), 0)

\* k * 2^e for a small integer k
Dyadic(k, e) ==
  IF k < 0 THEN Canon(1, BitsOf(-k), e) ELSE Canon(0, BitsOf(k), e)

DNeg(x) ==
  IF x = Zero THEN Zero ELSE [x EXCEPT !.sgn = 1 - x.sgn]

\* x + y, exactly
DAdd(x, y) ==
  IF x = Zero THEN y
  ELSE IF y = Zero THEN x
  ELSE LET e  == IF x.exp < y.exp THEN x.exp ELSE y.exp
           mx == ShlN(x.man, x.exp - e)
           my == ShlN(y.man, y.exp - e)
       IN  IF x.sgn = y.sgn THEN Canon(x.sgn, AddN(mx, my, 0), e)
           ELSE IF LeqN(my, mx) THEN Canon(x.sgn, SubN(mx, my), e)
           ELSE Canon(y.sgn, SubN(my, mx), e)

\* x * y, exactly
DMul(x, y) ==
  IF x = Zero \/ y = Zero THEN Zero
  ELSE Canon((x.sgn + y.sgn) % 2,
             IF Len(x.man) <= Len(y.man) THEN MulN(x.man, y.man)
             ELSE MulN(y.man, x.man),
             x.exp + y.exp)

\* ------------------------------------------------------------------------
\* IEEE 754 rounding (round to nearest, ties to even) to precision P
\* ------------------------------------------------------------------------

AnyOne(a) == Ones(a) # {}

\* binary64 and binary32 significand widths
P64 == 53
P32 == 24

Round(P, x) ==
  LET L == Len(x.man)
  IN  IF L <= P THEN x
      ELSE LET cut    == L - P
               kept   == SubSeq(x.man, cut + 1, L)
               guard  == x.man[cut]
               sticky == AnyOne(SubSeq(x.man, 1, cut - 1))
               up     == guard = 1 /\ (sticky \/ kept[1] = 1)
           IN  Canon(x.sgn, IF up THEN AddN(kept, <<>>, 1) ELSE kept, x.exp + cut)

\* float operations: the exact result, rounded
FAdd(P, x, y) == Round(P, DAdd(x, y))
FMul(P, x, y) == Round(P, DMul(x, y))

RECURSIVE Pow2Mod(_, _)
\* 2^k modulo d
Pow2Mod(k, d) ==
  IF k = 0 THEN 1 % d
  ELSE LET q == Pow2Mod(k \div 2, d)
       IN  (q * q * (IF k % 2 = 1 THEN 2 ELSE 1)) % d

\* the remainder left after k bits after the binary point of r / d
\* (0 <= r < d) have been developed by long division
FracRem(r, d, k) == (r * Pow2Mod(k, d)) % d

\* those k bits, least significant first
FracBits(r, d, k) ==
  [j \in 1..k |-> (2 * FracRem(r, d, k - j)) \div d]

\* a / d for small integers a >= 0, d > 0, rounded to precision P: the
\* quotient is developed to P + 2 + Len(BitsOf(d)) fraction bits and a last
\* bit records whether anything non-zero was cut off
FDivInt(P, a, d) ==
  LET k    == P + 2 + Len(BitsOf(d))
      frac == FracBits(a % d, d, k)
      st   == IF FracRem(a % d, d, k) = 0 THEN 0 ELSE 1
  IN  Round(P, Canon(0, <<st>> \o frac \o BitsOf(a \div d), -(k + 1)))

\* ------------------------------------------------------------------------
\* The libraries the dataset builder calls
\* ------------------------------------------------------------------------

\* The global random source (numpy's RandomState, which scipy draws from),
\* as a counter-based generator: the stream is fixed by the key the seed
\* sets, and ctr counts the standard-normal variates drawn since.
SeedKeys == 2
ZTable ==
  << Dyadic(-3, -1), Dyadic(1, -2), Dyadic(5, -3), Dyadic(-1, 0),
     Dyadic(7, -2), Dyadic(-1, -4), Dyadic(11, -3) >>

\* the variate the stream of key k holds at position c (c = 0 first)
Variate(k, c) == ZTable[((3 * k + 5 * c + k * c) % Len(ZTable)) + 1]

\* numpy.random.seed, as ed.set_seed calls it
Seeded(s) == [key |-> s % SeedKeys, ctr |-> 0]

\* mutant: the count rounded up instead of truncated
IntOfHalfUp(n) == (n + 1) \div 2

\* int(num): truncation of the quotient N / 2 of true division
IntOfHalf(n) == n \div 2

\* mutant: linspace with endpoint=False, step = (stop - start) / num and no
\* last element set to stop
linspaceOpenAt(start, stop, num, i) ==
  FAdd(P64, FMul(P64, FromInt(i - 1), FDivInt(P64, stop - start, num)),
       FromInt(start))

\* Element i (1 <= i <= num) of np.linspace(start, stop, num) for integers
\* start < stop and a count num >= 1, in binary64:
\*   y = arange(0, num) * step + start,  step = (stop - start) / (num - 1),
\*   y[-1] = stop when num > 1;  num = 1 gives [start]
linspaceAt(start, stop, num, i) ==
  IF num = 1 THEN FromInt(start)
  ELSE IF i = num THEN FromInt(stop)
  ELSE FAdd(P64, FMul(P64, FromInt(i - 1), FDivInt(P64, stop - start, num - 1)),
            FromInt(start))

\* np.linspace(start, stop, num); num = 0 gives [].  The count arrives as
\* the float N / 2 and linspace takes num = int(num) of it (IntOfHalf), as
\* the numpy releases the script was written for do (numpy 1.18 and later
\* reject a float count).
linspace(start, stop, num) ==
  [i \in 1..num |-> linspaceAt(start, stop, num, i)]

\* element i of scipy.stats.norm.rvs(0, scale, size) with the random source
\* in state r at the call: loc * ones(size) when scale is zero, and otherwise
\* variate * scale + loc of the i-th variate drawn
rvsAt(scale, r, i) ==
  IF scale = Zero THEN Zero
  ELSE FAdd(P64, FMul(P64, Variate(r.key, r.ctr + i - 1), scale), Zero)

\* mutant: the variates are drawn from a copy of the random source, whose
\* position is not advanced
rvsNoAdvance(scale, size, r) ==
  [vals |-> [i \in 1..size |-> rvsAt(scale, r, i)], rng |-> r]

\* scipy.stats.norm.rvs(0, scale, size): [vals, rng].  A scale of zero
\* returns without drawing; otherwise size variates are drawn in order.
rvs(scale, size, r) ==
  [vals |-> [i \in 1..size |-> rvsAt(scale, r, i)],
   rng  |-> IF scale = Zero THEN r ELSE [r EXCEPT !.ctr = r.ctr + size]]

\* numpy broadcasting of two one-dimensional lengths: the common length, or
\* -1 when the operands cannot be broadcast together
Broadcast(la, lb) ==
  IF la = lb THEN la
  ELSE IF la = 1 THEN lb
  ELSE IF lb = 1 THEN la
  ELSE -1

\* mutant: the operand is read one position off (wrapping at the end)
BcOffByOne(len, i) == IF len = 1 THEN 1 ELSE (i % len) + 1

\* the position of the element of an operand of length len that takes part
\* in an elementwise operation at position i
Bc(len, i) == IF len = 1 THEN 1 ELSE i

\* mutant: the two extents in the other order, X.reshape((1, N))
ShapeSwapped(n) == <<1, n>>

\* the shape (N, 1) that line 18 asks of reshape
Shape(n) == <<n, 1>>

\* the position in the one-dimensional array of element (i, j) of its
\* reshape to cols columns (row-major)
ReshapeIndex(cols, i, j) == (i - 1) * cols + j

\* x.astype(np.float32), for one element
astype32(x) == Round(P32, x)

\* ------------------------------------------------------------------------
\* build_toy_dataset
\* ------------------------------------------------------------------------

NoArray == <<>>

\* element i of np.concatenate([np.linspace(0, 2, num), np.linspace(6, 8, num)])
ConcatAt(num, i) ==
  IF i <= num THEN linspaceAt(0, 2, num, i) ELSE linspaceAt(6, 8, num, i - num)

\* build_toy_dataset(n, noise_std) called with the random source in state r.
\* raised = 0: it returned X (rows of one column) and y; otherwise raised is
\* the source line that raised.  rng is the random source afterwards, and
\* X64 the concatenated binary64 feature values of lines 15-16.
build_toy_dataset(n, noise_std, r) ==
  LET half  == IntOfHalf(n)
      xlen  == Len(linspace(0, 2, half)) + Len(linspace(6, 8, half))
      X64   == [i \in 1..xlen |-> ConcatAt(half, i)]
      noise == rvs(noise_std, n, r)
      ylen  == Broadcast(xlen, n)
      rows  == Shape(n)[1]
      cols  == Shape(n)[2]
  IN  IF ylen < 0
        THEN [raised |-> 17, X |-> NoArray, y |-> NoArray, X64 |-> X64,
              rng |-> noise.rng]
      ELSE IF xlen # rows * cols
        THEN [raised |-> 18, X |-> NoArray, y |-> NoArray, X64 |-> X64,
              rng |-> noise.rng]
      ELSE [raised |-> 0,
            X   |-> [i \in 1..rows |-> [j \in 1..cols |->
                       astype32(ConcatAt(half, ReshapeIndex(cols, i, j)))]],
            y   |-> [i \in 1..ylen |->
                       astype32(FAdd(P64,
                                     FMul(P64, FromInt(5), ConcatAt(half, Bc(xlen, i))),
                                     rvsAt(noise_std, r, Bc(n, i))))],
            X64 |-> X64,
            rng |-> noise.rng]

\* ------------------------------------------------------------------------
\* The script
\* ------------------------------------------------------------------------

N == 40
p == 1
Seed == 42
Iterations == 501

\* the default of the parameter noise_std: the literal 0.1 in binary64
DefaultNoiseStd == FDivInt(P64, 1, 10)

\* the values a loss can take are 0..LossMax
LossMax == 2

VARIABLES
  pc,          \* the statement the script executes next
  rng,         \* the global random source
  X_data,      \* the feature array (rows of one column), NoArray before line 27
  y_data,      \* the response array
  data,        \* the observed-data binding {y: y_data}: the array bound to y
  declared,    \* whether the model of lines 29-35 has been declared
  seedCalls,   \* calls of ed.set_seed
  buildCalls,  \* calls of build_toy_dataset by the script
  initCalls,   \* calls of inference.initialize
  it,          \* items the for loop has taken from range(501)
  t,           \* the loop variable, -1 while unbound
  loss,        \* the loss the last sess.run returned, -1 before the first
  trainSteps,  \* executions of inference.train
  stdout,      \* the iteration index of every progress line printed, in order
  lastLine,    \* the last progress line: <<iteration index, loss>>
  failed,      \* the unhandled failure, if any: [stage, t, emitted]
  argN,        \* the arguments of the calls of the function specification
  argStd,
  calls,       \* calls made there
  ret,         \* the result of the last call, and the random source at its entry
  entry,
  prev,        \* the same of the call before it
  prevEntry

vars == <<pc, rng, X_data, y_data, data, declared, seedCalls, buildCalls,
          initCalls, it, t, loss, trainSteps, stdout, lastLine, failed,
          argN, argStd, calls, ret, entry, prev, prevEntry>>

scriptVars == <<pc, X_data, y_data, data, declared, seedCalls, buildCalls,
                initCalls, it, t, loss, trainSteps, stdout, lastLine, failed>>

callVars == <<argN, argStd, calls, ret, entry, prev, prevEntry>>

NoCall == [raised |-> -1, X |-> NoArray, y |-> NoArray, X64 |-> NoArray,
           rng |-> [key |-> 0, ctr |-> 0]]
NoFailure == [stage |-> "none", t |-> -1, emitted |-> FALSE]
NoLine == <<-1, -1>>

\* mutant: the progress line is printed before the training step of its
\* iteration
SuccPrintFirst(stage) ==
  CASE stage = "seed"       -> "build"
    [] stage = "build"      -> "model"
    [] stage = "model"      -> "bind"
    [] stage = "bind"       -> "inference"
    [] stage = "inference"  -> "initialize"
    [] stage = "initialize" -> "session"
    [] stage = "session"    -> "for"
    [] stage = "for"        -> "print"
    [] stage = "print"      -> "train"
    [] stage = "train"      -> "for"

\* mutant: the dataset is built inside the loop, again after every iteration
SuccRebuild(stage) ==
  CASE stage = "seed"       -> "build"
    [] stage = "build"      -> "model"
    [] stage = "model"      -> "bind"
    [] stage = "bind"       -> "inference"
    [] stage = "inference"  -> "initialize"
    [] stage = "initialize" -> "session"
    [] stage = "session"    -> "for"
    [] stage = "for"        -> "train"
    [] stage = "train"      -> "print"
    [] stage = "print"      -> "build"

\* mutant: inference.initialize() is left out
SuccNoInit(stage) ==
  CASE stage = "seed"       -> "build"
    [] stage = "build"      -> "model"
    [] stage = "model"      -> "bind"
    [] stage = "bind"       -> "inference"
    [] stage = "inference"  -> "session"
    [] stage = "initialize" -> "session"
    [] stage = "session"    -> "for"
    [] stage = "for"        -> "train"
    [] stage = "train"      -> "print"
    [] stage = "print"      -> "for"

\* the statement after each statement, in the order of the source lines; the
\* for statement of line 43 enters its body here and leaves it by ForNext
Succ(stage) ==
  CASE stage = "seed"       -> "build"
    [] stage = "build"      -> "model"
    [] stage = "model"      -> "bind"
    [] stage = "bind"       -> "inference"
    [] stage = "inference"  -> "initialize"
    [] stage = "initialize" -> "session"
    [] stage = "session"    -> "for"
    [] stage = "for"        -> "train"
    [] stage = "train"      -> "print"
    [] stage = "print"      -> "for"

\* mutant: the range is one item short
RangeShort(k) == k < Iterations - 1

\* whether range(501) holds a k-th item (k = 0 first)
RangeHas(k) == k < Iterations

\* mutant: the exception is swallowed and the script goes on
OnFailureContinue(stage) == Succ(stage)

\* where control goes when a statement raises: no statement of the script is
\* inside a try, so the exception ends the process
OnFailure(stage) == "crashed"

ScriptInit ==
  /\ pc = "seed"
  /\ rng \in {[key |-> k, ctr |-> 0] : k \in 0..(SeedKeys - 1)}
  /\ X_data = NoArray /\ y_data = NoArray /\ data = NoArray
  /\ declared = FALSE
  /\ seedCalls = 0 /\ buildCalls = 0 /\ initCalls = 0
  /\ it = 0 /\ t = -1 /\ loss = -1 /\ trainSteps = 0
  /\ stdout = <<>> /\ lastLine = NoLine
  /\ failed = NoFailure

Init ==
  /\ ScriptInit
  /\ argN = N /\ argStd = DefaultNoiseStd /\ calls = 0
  /\ ret = NoCall /\ entry = NoCall.rng /\ prev = NoCall /\ prevEntry = NoCall.rng

\* line 25: ed.set_seed(42)
SetSeed ==
  /\ pc = "seed"
  /\ rng' = Seeded(Seed)
  /\ seedCalls' = seedCalls + 1
  /\ pc' = Succ("seed")
  /\ UNCHANGED <<X_data, y_data, data, declared, buildCalls, initCalls, it, t,
                 loss, trainSteps, stdout, lastLine, failed>>
  /\ UNCHANGED callVars

\* build_toy_dataset(N) called with the random source as ed.set_seed(42)
\* leaves it, which is how line 27 calls it: a constant, evaluated once
SeededDataset == build_toy_dataset(N, DefaultNoiseStd, Seeded(Seed))

\* line 27: X_data, y_data = build_toy_dataset(N)
BuildDataset ==
  /\ pc = "build"
  /\ LET r == IF rng = Seeded(Seed) THEN SeededDataset
              ELSE build_toy_dataset(N, DefaultNoiseStd, rng)
     IN  /\ rng' = r.rng
         /\ buildCalls' = buildCalls + 1
         /\ IF r.raised = 0
              THEN /\ X_data' = r.X /\ y_data' = r.y
                   /\ pc' = Succ("build")
                   /\ failed' = failed
              ELSE /\ UNCHANGED <<X_data, y_data>>
                   /\ pc' = OnFailure("build")
                   /\ failed' = [stage |-> "build", t |-> t, emitted |-> FALSE]
  /\ UNCHANGED <<data, declared, seedCalls, initCalls, it, t, loss, trainSteps,
                 stdout, lastLine>>
  /\ UNCHANGED callVars

\* whether X is a matrix of N rows and p columns, as ed.dot(X, beta) with
\* beta of length p and sigma = tf.ones(N) need
ShapesFit(X) == Len(X) = N /\ \A i \in 1..Len(X) : Len(X[i]) = p

\* lines 29-35: the prior, the likelihood over ed.dot(X, beta) and the
\* variational family
DeclareModel ==
  /\ pc = "model"
  /\ IF ShapesFit(X_data)
       THEN /\ declared' = TRUE
            /\ pc' = Succ("model")
            /\ failed' = failed
       ELSE /\ declared' = declared
            /\ pc' = OnFailure("model")
            /\ failed' = [stage |-> "model", t |-> t, emitted |-> FALSE]
  /\ UNCHANGED <<rng, X_data, y_data, data, seedCalls, buildCalls, initCalls,
                 it, t, loss, trainSteps, stdout, lastLine>>
  /\ UNCHANGED callVars

\* line 37: data = {y: y_data}
BindData ==
  /\ pc = "bind"
  /\ data' = y_data
  /\ pc' = Succ("bind")
  /\ UNCHANGED <<rng, X_data, y_data, declared, seedCalls, buildCalls,
                 initCalls, it, t, loss, trainSteps, stdout, lastLine, failed>>
  /\ UNCHANGED callVars

\* line 39: inference = ed.MFVI({beta: qbeta}, data)
NewInference ==
  /\ pc = "inference"
  /\ pc' = Succ("inference")
  /\ UNCHANGED <<rng, X_data, y_data, data, declared, seedCalls, buildCalls,
                 initCalls, it, t, loss, trainSteps, stdout, lastLine, failed>>
  /\ UNCHANGED callVars

\* line 40: inference.initialize()
Initialize ==
  /\ pc = "initialize"
  /\ initCalls' = initCalls + 1
  /\ pc' = Succ("initialize")
  /\ UNCHANGED <<rng, X_data, y_data, data, declared, seedCalls, buildCalls,
                 it, t, loss, trainSteps, stdout, lastLine, failed>>
  /\ UNCHANGED callVars

\* line 42: sess = ed.get_session()
GetSession ==
  /\ pc = "session"
  /\ pc' = Succ("session")
  /\ UNCHANGED <<rng, X_data, y_data, data, declared, seedCalls, buildCalls,
                 initCalls, it, t, loss, trainSteps, stdout, lastLine, failed>>
  /\ UNCHANGED callVars

\* line 43: for t in range(501): the next item is bound to t and the body
\* entered, or the range is exhausted and the script ends
ForNext ==
  /\ pc = "for"
  /\ IF RangeHas(it)
       THEN /\ t' = it /\ it' = it + 1
            /\ pc' = Succ("for")
       ELSE /\ UNCHANGED <<t, it>>
            /\ pc' = "done"
  /\ UNCHANGED <<rng, X_data, y_data, data, declared, seedCalls, buildCalls,
                 initCalls, loss, trainSteps, stdout, lastLine, failed>>
  /\ UNCHANGED callVars

\* line 44: _, loss = sess.run([inference.train, inference.loss]): one
\* optimization step; the loss it returns is the library's
Train ==
  /\ pc = "train"
  /\ \E l \in 0..LossMax : loss' = l
  /\ trainSteps' = trainSteps + 1
  /\ pc' = Succ("train")
  /\ UNCHANGED <<rng, X_data, y_data, data, declared, seedCalls, buildCalls,
                 initCalls, it, t, stdout, lastLine, failed>>
  /\ UNCHANGED callVars

\* inference.print_progress(k, l): one progress line showing the iteration
\* index and the loss
print_progress(k, l) ==
  /\ stdout' = Append(stdout, k)
  /\ lastLine' = <<k, l>>

\* line 45: inference.print_progress(t, loss)
PrintProgress ==
  /\ pc = "print"
  /\ print_progress(t, loss)
  /\ pc' = Succ("print")
  /\ UNCHANGED <<rng, X_data, y_data, data, declared, seedCalls, buildCalls,
                 initCalls, it, t, loss, trainSteps, failed>>
  /\ UNCHANGED callVars

\* the statements that call into a library
LibraryStages ==
  {"seed", "build", "model", "inference", "initialize", "session", "train",
   "print"}

\* a library call raises before it has had an effect
Raise ==
  /\ pc \in LibraryStages
  /\ failed' = [stage |-> pc, t |-> t, emitted |-> FALSE]
  /\ pc' = OnFailure(pc)
  /\ UNCHANGED <<rng, X_data, y_data, data, declared, seedCalls, buildCalls,
                 initCalls, it, t, loss, trainSteps, stdout, lastLine>>
  /\ UNCHANGED callVars

\* inference.print_progress raises after it has written its line
RaiseAfterPrint ==
  /\ pc = "print"
  /\ print_progress(t, loss)
  /\ failed' = [stage |-> "print", t |-> t, emitted |-> TRUE]
  /\ pc' = OnFailure("print")
  /\ UNCHANGED <<rng, X_data, y_data, data, declared, seedCalls, buildCalls,
                 initCalls, it, t, loss, trainSteps>>
  /\ UNCHANGED callVars

Next ==
  \/ SetSeed
  \/ BuildDataset
  \/ DeclareModel
  \/ BindData
  \/ NewInference
  \/ Initialize
  \/ GetSession
  \/ ForNext
  \/ Train
  \/ PrintProgress
  \/ Raise
  \/ RaiseAfterPrint

Spec == Init /\ [][Next]_vars

\* The script is one sequential process: a statement that can run does run.
FairSpec == Spec /\ WF_vars(Next)

\* ------------------------------------------------------------------------
\* The function specification: build_toy_dataset on bounded inputs
\* ------------------------------------------------------------------------

MaxN == 10
MaxCalls == 2

\* the noise standard deviations tried: 0, 0.125 and the default 0.1
StdVals == {Zero, Dyadic(1, -3), DefaultNoiseStd}

InitBuild ==
  /\ argN \in 1..MaxN
  /\ argStd \in StdVals
  /\ rng \in {[key |-> k, ctr |-> 0] : k \in 0..(SeedKeys - 1)}
  /\ calls = 0
  /\ ret = NoCall /\ prev = NoCall
  /\ entry = rng /\ prevEntry = rng
  /\ pc = "call"
  /\ X_data = NoArray /\ y_data = NoArray /\ data = NoArray
  /\ declared = FALSE
  /\ seedCalls = 0 /\ buildCalls = 0 /\ initCalls = 0
  /\ it = 0 /\ t = -1 /\ loss = -1 /\ trainSteps = 0
  /\ stdout = <<>> /\ lastLine = NoLine
  /\ failed = NoFailure

\* build_toy_dataset(argN, argStd)
CallBuild ==
  /\ calls < MaxCalls
  /\ LET r == build_toy_dataset(argN, argStd, rng)
     IN  /\ ret' = r
         /\ rng' = r.rng
  /\ entry' = rng
  /\ prev' = ret
  /\ prevEntry' = entry
  /\ calls' = calls + 1
  /\ UNCHANGED <<argN, argStd>>
  /\ UNCHANGED scriptVars

\* ed.set_seed(s) between calls
Reseed ==
  /\ calls < MaxCalls
  /\ \E s \in 0..(SeedKeys - 1) : rng' = Seeded(s)
  /\ UNCHANGED callVars
  /\ UNCHANGED scriptVars

NextBuild ==
  \/ CallBuild
  \/ Reseed

SpecBuild == InitBuild /\ [][NextBuild]_vars

\* ------------------------------------------------------------------------
\* Properties
\* ------------------------------------------------------------------------

\* x <= y
DLeq(x, y) == DAdd(y, DNeg(x)).sgn = 0

\* |x|
DAbs(x) == [x EXCEPT !.sgn = 0]

\* x - y, exactly
DSub(x, y) == DAdd(x, DNeg(y))

\* whether x is a value of the format of precision P
Fits(P, x) == Len(x.man) <= P

\* the unit in the last place of x in the format of precision P
Ulp(P, x) == Dyadic(1, x.exp + Len(x.man) - P)

\* the single-precision product 5.0 * x
FiveTimes(x) == FMul(P32, FromInt(5), x)

Called == calls > 0
Returned == calls > 0 /\ ret.raised = 0
EvenN == argN % 2 = 0
Half == argN \div 2

\* the feature value of row i (feature[i-1, 0])
Feature(i) == ret.X[i][1]

\* C1: for every even N >= 2 and every noise_std >= 0 the call returns a
\* feature array of N rows of one column and a response array of length N
C1_ShapeN ==
  (Called /\ EvenN) =>
     /\ ret.raised = 0
     /\ Len(ret.X) = argN
     /\ \A i \in 1..Len(ret.X) : Len(ret.X[i]) = 1
     /\ Len(ret.y) = argN

C1_Witness ==
  /\ Returned /\ argN = 4 /\ argStd # Zero
  /\ Len(ret.X) = 4 /\ Len(ret.X[4]) = 1 /\ Len(ret.y) = 4

\* C2 as stated: with noise_std = 0 and even N, response[i] is exactly
\* 5.0 * feature[i, 0] for every i
C2_ExactSlope ==
  (Called /\ EvenN /\ argStd = Zero) =>
     /\ ret.raised = 0
     /\ \A i \in 1..argN : ret.y[i] = FiveTimes(Feature(i))

\* C2, amended: with noise_std = 0 and even N, response[i] is paired with
\* feature[i, 0] and is 5.0 * feature[i, 0] up to single-precision rounding:
\* the two differ by at most one unit in the last place of response[i], and
\* are equal wherever the double-precision feature value is a
\* single-precision number (as at the ends 0, 2, 6, 8 of the segments)
C2_SlopeToOneUlp ==
  (Called /\ EvenN /\ argStd = Zero) =>
     /\ ret.raised = 0
     /\ \A i \in 1..argN :
          /\ DLeq(DAbs(DSub(ret.y[i], FiveTimes(Feature(i)))), Ulp(P32, ret.y[i]))
          /\ Fits(P32, ret.X64[i]) => ret.y[i] = FiveTimes(Feature(i))
     /\ \A i \in {1, Half, Half + 1, argN} : ret.y[i] = FiveTimes(Feature(i))

C2_Witness ==
  /\ Returned /\ argN = 8 /\ argStd = Zero
  /\ ret.y[2] # FiveTimes(Feature(2))
  /\ ret.y[4] = FiveTimes(Feature(4))

\* what C3 says of the two halves apart from the spacing: N/2 values in
\* [0, 2] and then N/2 values in [6, 8], the first half from 0 to 2 and the
\* second from 6 to 8 when N/2 >= 2
HalvesInRange ==
  /\ Len(ret.X) = 2 * Half
  /\ \A i \in 1..Half :
       DLeq(Zero, Feature(i)) /\ DLeq(Feature(i), FromInt(2))
  /\ \A i \in (Half + 1)..argN :
       DLeq(FromInt(6), Feature(i)) /\ DLeq(Feature(i), FromInt(8))
  /\ Feature(1) = Zero /\ Feature(Half + 1) = FromInt(6)
  /\ Half >= 2 => Feature(Half) = FromInt(2) /\ Feature(argN) = FromInt(8)

\* the difference between value i + 1 and value i
Gap(i) == DSub(Feature(i + 1), Feature(i))

\* (Half - 1) times the exact evenly spaced point k of the segment that
\* starts at start: start * (Half - 1) + 2 * k
ScaledPoint(start, k) == FromInt(start * (Half - 1) + 2 * k)

\* whether value x is within one unit in its last place of point k
NearPoint(x, start, k) ==
  DLeq(DAbs(DSub(DMul(x, FromInt(Half - 1)), ScaledPoint(start, k))),
       DMul(Ulp(P32, x), FromInt(Half - 1)))

SameFromSameSource ==
  calls >= 2 =>
     /\ ret.X = prev.X /\ ret.X64 = prev.X64
     /\ entry = prevEntry =>
          /\ ret.y = prev.y /\ ret.raised = prev.raised
          /\ ret.rng = prev.rng

\* the variates the last call drew
Draws == ret.rng.ctr - entry.ctr

C10_OddNRaises ==
  (Called /\ ~EvenN) =>
     /\ ret.raised \in {17, 18}
     /\ ret.X = NoArray /\ ret.y = NoArray
     /\ Len(ret.X64) = 2 * Half /\ Len(ret.X64) <= argN - 1

C10_Witness ==
  /\ Called /\ argN = 3 /\ ret.raised = 17 /\ Len(ret.X64) = 2

\* C4: the output is the progress lines of iterations 0, 1, ..., each once
\* and in order, 501 of them when the script ends; no line precedes the
\* training step of its iteration, and a line shows the loss of the session
\* run of its own iteration
C4_ProgressLines ==
  /\ Len(stdout) <= Iterations
  /\ \A i \in 1..Len(stdout) : stdout[i] = i - 1
  /\ Len(stdout) <= trainSteps
  /\ pc = "done" => Len(stdout) = Iterations
  /\ stdout # <<>> => lastLine[1] = stdout[Len(stdout)]
  /\ (stdout # <<>> /\ Len(stdout) = trainSteps) =>
       lastLine = <<Len(stdout) - 1, loss>>
  /\ pc = "for" /\ stdout # <<>> => lastLine = <<t, loss>>

C4_Witness ==
  /\ pc = "done" /\ Len(stdout) = Iterations
  /\ stdout[Iterations] = Iterations - 1 /\ lastLine = <<Iterations - 1, loss>>

\* C6: the arrays are built by one call, before the model is declared, and
\* no later step changes X_data, y_data or the array bound to y
C6_BuiltOnceThenFixed ==
  /\ [](buildCalls <= 1 /\ (declared => buildCalls = 1))
  /\ [](data # NoArray => data = y_data)
  /\ [][X_data # NoArray =>
          X_data' = X_data /\ y_data' = y_data /\ buildCalls' = buildCalls]_vars
  /\ [][data # NoArray => data' = data]_vars

C6_Witness ==
  /\ pc = "done" /\ buildCalls = 1 /\ trainSteps = Iterations
  /\ Len(X_data) = N /\ data = y_data /\ Len(y_data) = N

\* C7: unless a library call fails the script ends after exactly 501
\* optimization steps, whatever the losses were
C7_Terminates ==
  /\ <>(pc \in {"done", "crashed"})
  /\ [](pc = "done" =>
          trainSteps = Iterations /\ it = Iterations /\ failed = NoFailure)
  /\ [](failed = NoFailure => pc # "crashed")

C7_Witness ==
  /\ pc = "done" /\ trainSteps = Iterations /\ failed = NoFailure
  /\ loss = LossMax

\* the statements from line 39 on
AfterModel ==
  {"inference", "initialize", "session", "for", "train", "print", "done"}

\* the statements of the loop, and the end
InLoop == {"for", "train", "print", "done"}

\* C8: the seed is set before the dataset is built, the dataset is built
\* before the model is declared and the inference object made,
\* initialize() is called once and before any training step, and in every
\* iteration the training step precedes the progress line
C8_StageOrder ==
  /\ buildCalls > 0 => seedCalls = 1 /\ rng.key = Seeded(Seed).key
  /\ declared => buildCalls = 1 /\ X_data # NoArray
  /\ pc \in AfterModel => declared /\ data = y_data
  /\ initCalls <= 1
  /\ (pc \in InLoop \/ trainSteps > 0) => initCalls = 1
  /\ Len(stdout) <= trainSteps /\ trainSteps <= Len(stdout) + 1
  /\ pc = "print" => trainSteps = Len(stdout) + 1
  /\ pc = "train" => trainSteps = Len(stdout)

C8_Witness ==
  /\ pc = "print" /\ t = 0 /\ trainSteps = 1 /\ stdout = <<>>
  /\ seedCalls = 1 /\ buildCalls = 1 /\ initCalls = 1 /\ declared

\* the progress lines out when the failure happened
LinesAtFailure ==
  IF failed.t < 0 THEN 0
  ELSE failed.t + (IF failed.emitted THEN 1 ELSE 0)

\* C9: a failure is neither caught nor retried: the process ends there, the
\* progress lines of iterations 0..t-1 are out (and line t only if the
\* failure came after its print), and no training step or progress line
\* follows
C9_FailureEndsProcess ==
  /\ [](failed # NoFailure =>
          /\ pc = "crashed"
          /\ Len(stdout) = LinesAtFailure
          /\ \A i \in 1..Len(stdout) : stdout[i] = i - 1
          /\ failed.t >= 0 =>
               trainSteps = failed.t + (IF failed.stage = "train" THEN 0 ELSE 1))
  /\ [](pc = "crashed" => failed # NoFailure)
  /\ [][failed # NoFailure =>
          UNCHANGED <<pc, stdout, trainSteps, lastLine, failed>>]_vars

C9_Witness ==
  /\ pc = "crashed" /\ failed.stage = "train" /\ failed.t = 3
  /\ Len(stdout) = 3 /\ trainSteps = 3

====
